---------------------------- MODULE Spec2Model ----------------------------
(***************************************************************************)
(* Model of libatalk/util/fault.c: the fatal-signal handler of netatalk.   *)
(*                                                                         *)
(*   CatchSignal     installs a disposition with sigaction()               *)
(*   netatalk_panic  logs "PANIC: why" and a backtrace                     *)
(*   fault_report    the handler body (reentrancy check, banner, panic,    *)
(*                   callback, restore of SIG_DFL or abort)                *)
(*   fault_setup     stores the callback and installs sig_fault            *)
(*                                                                         *)
(* Spec is the process: threads, the signal table, handler invocations     *)
(* that interleave statement by statement.  RaceSpec is Spec with one more *)
(* delivery.  PanicSpec runs one call of netatalk_panic frame by frame for *)
(* each unwinding backend.                                                 *)
(***************************************************************************)
EXTENDS Integers, Sequences, FiniteSets

\* ------------------------------------------------------------ bounds ----
MaxInv == 2        \* handler invocations in one run of the process (Spec)
MaxAppPanic == 1   \* calls of netatalk_panic made by the application
MaxStack == 1      \* frames above netatalk_panic in the process model
MaxDepth == 66     \* deepest stack one call of netatalk_panic unwinds
MaxBad == 2        \* the name lookup can fail for the frames 1..MaxBad
MaxCycle == 3      \* longest cyclic frame chain netatalk_panic is run on
MaxLines == 68     \* frame lines kept of one walk; count saturates there

\* --------------------------------------------------------- vocabulary ---
NULL == "NULL"
SIG_DFL == "SIG_DFL"
sig_fault == "sig_fault"
prev_handler == "prev_handler"   \* whatever was installed before fault_setup

FatalSignals == {"SIGSEGV", "SIGBUS"}
Threads == {"t1", "t2"}
Callbacks == {"fn1"}
Backends == {"libunwind", "backtrace", "none"}

BACKTRACE_STACK_SIZE == 64

VARIABLES
    cont_fn,    \* static void (*cont_fn)(void *)
    counter,    \* static int counter of fault_report
    disp,       \* the process's signal table, one struct sigaction per signal
    tmask,      \* each thread's blocked-signal mask
    calls,      \* the handler invocations so far, in order of delivery
    log,        \* the records written through LOG(), in order, by writer:
                \* log[i] by handler invocation i, log[0] by the application
    cbCalls,    \* the calls of the continuation callback, by invocation
    proc,       \* how the process is doing: running, or how it ended and by whom
    backend,    \* the unwinding facility compiled in
    appPanics,  \* number of netatalk_panic calls made by the application
    setupArg,   \* the arguments of the most recent fault_setup calls, latest last
    \* one call of netatalk_panic, statement by statement (PanicSpec)
    ppc,        \* where the call is: idle, entry, unwind, print, done
    pstack,     \* the stack it unwinds
    pcyclic,    \* corrupted stack: the outermost frame chains back to the innermost
    pstrings,   \* whether backtrace_symbols() returns an array
    pcursor,    \* libunwind: the frame the cursor is at; backtrace: the index i
    pcount,     \* int count
    psymbol,    \* char symbol[256]
    psize,      \* backtrace_size
    plog        \* the records this call has written

hvars == <<cont_fn, counter, disp, tmask, calls, log, cbCalls, proc, appPanics,
           setupArg>>
pvars == <<ppc, pstack, pcyclic, pstrings, pcursor, pcount, psymbol, psize, plog>>
vars == <<hvars, backend, pvars>>

\* --------------------------------------------------------- CatchSignal --
\* sigaction(signum, &act, &oldact) with act zeroed, sa_handler = handler and
\* sa_mask = {signum}: no SA_RESETHAND, no SA_NODEFER, no SA_RESTART.
SigAction_blockAll(handler, signum) ==
    [h |-> handler, mask |-> {"SIGSEGV", "SIGBUS"}, flags |-> {}]

SigAction_resethand(handler, signum) ==
    [h |-> handler, mask |-> {signum}, flags |-> {"SA_RESETHAND"}]

SigAction(handler, signum) ==
    [h |-> handler, mask |-> {signum}, flags |-> {}]

CatchSignal(d, signum, handler) ==
    [d EXCEPT ![signum] = SigAction(handler, signum)]


\* ------------------------------------------------------ netatalk_panic --
\* A stack is the sequence of frames the unwinder yields, innermost first.
\* A frame is [ip, sym]; sym = NoName when the name lookup fails for it.
NoName == <<>>
Unknown == <<"<unknown>">>
Sym(k) == <<"proc", k>>

PanicLine(who, why) == [who |-> who, kind |-> "PANIC", why |-> why]
BacktraceLine(who) == [who |-> who, kind |-> "BACKTRACE"]
FrameLine(who, idx, ip, name) ==
    [who |-> who, kind |-> "frame", idx |-> idx, ip |-> ip, name |-> name]

\* unw_get_proc_name(&cursor, symbol, ...): returns 0 and fills the buffer
\* when the name is found; otherwise the buffer keeps what it held.
unw_get_proc_name(frame, symbol) ==
    IF frame.sym # NoName THEN frame.sym ELSE symbol

\* while (unw_step(&cursor) > 0) { ...; LOG(" #%i ...", count++, ..., name); }
\* from frame k on, with `symbol` the buffer's content (name == symbol).
RECURSIVE UnwindLoop(_, _, _, _)
UnwindLoop(who, stack, k, symbol) ==
    IF k > Len(stack) THEN <<>>
    ELSE LET s2 == unw_get_proc_name(stack[k], symbol)
         IN  <<FrameLine(who, k - 1, stack[k].ip, s2)>>
                 \o UnwindLoop(who, stack, k + 1, s2)

\* backtrace(backtrace_stack, BACKTRACE_STACK_SIZE)
backtrace(stack) ==
    IF Len(stack) < BACKTRACE_STACK_SIZE THEN Len(stack) ELSE BACKTRACE_STACK_SIZE

\* for (i = 0; i < backtrace_size; i++) LOG(" #%u %s", i, backtrace_strings[i]);
BacktraceLoop(who, stack, size) ==
    [i \in 1..size |-> FrameLine(who, i - 1, stack[i].ip, stack[i].sym)]

\* The records one call of netatalk_panic(why) writes. stringsOk: whether
\* backtrace_symbols() returned an array (it returns NULL when out of memory).
netatalk_panic(who, why, be, stack, stringsOk) ==
    <<PanicLine(who, why)>> \o
    CASE be = "libunwind" ->
            <<BacktraceLine(who)>> \o UnwindLoop(who, stack, 1, Unknown)
      [] be = "backtrace" ->
            <<BacktraceLine(who)>> \o
            (IF stringsOk THEN BacktraceLoop(who, stack, backtrace(stack)) ELSE <<>>)
      [] OTHER -> <<>>

\* The stacks the process model unwinds: d frames, all with a name.
AppStack(d) == [k \in 1..d |-> [ip |-> k, sym |-> Sym(k)]]

\* ------------------------------------------------------- the process ----
Running == proc.how = "running"

Active(i) == calls[i].pc # "returned"

\* The invocations in progress on thread t, and the innermost of them: a
\* handler interrupted by another signal waits until that one returns.
OnThread(t) == {i \in 1..Len(calls) : calls[i].thread = t /\ Active(i)}
Top(t) == CHOOSE i \in OnThread(t) : \A j \in OnThread(t) : j <= i
Executing(i) == IF Active(i) THEN i = Top(calls[i].thread) ELSE FALSE

\* Thread t is running application code: outside the handler, or inside the
\* continuation callback.
InApp(t) == IF OnThread(t) = {} THEN TRUE ELSE calls[Top(t)].pc = "callback"

\* No thread is between the entry of fault_report and its return, except in
\* the callback.
NoHandlerBody == \A i \in 1..Len(calls) : calls[i].pc \in {"callback", "returned"}

SetPc(i, pc) == calls' = [calls EXCEPT ![i].pc = pc]

HandlerInit ==
    /\ cont_fn = NULL
    /\ counter = 0
    /\ disp = [s \in FatalSignals |-> [h |-> prev_handler, mask |-> {}, flags |-> {}]]
    /\ tmask = [t \in Threads |-> {}]
    /\ calls = <<>>
    /\ log = [w \in 0..MaxInv + 1 |-> <<>>]
    /\ cbCalls = [w \in 1..MaxInv + 1 |-> <<>>]
    /\ proc = [how |-> "running", by |-> 0]
    /\ appPanics = 0
    /\ setupArg = <<>>

PanicIdle ==
    /\ ppc = "idle"
    /\ pstack = <<>>
    /\ pcyclic = FALSE
    /\ pstrings = TRUE
    /\ pcursor = 0
    /\ pcount = 0
    /\ psymbol = Unknown
    /\ psize = 0
    /\ plog = <<>>

Init == HandlerInit /\ backend \in Backends /\ PanicIdle


\* ---------------------------------------------------------- fault_setup -
\* cont_fn = fn; CatchSignal(SIGSEGV, sig_fault); CatchSignal(SIGBUS, sig_fault).
\* It is application code: called at start-up, from the continuation
\* callback, or after the handler has returned (NoHandlerBody); a call that
\* races with the handler body on another thread is not modelled.
fault_setup_keepFirst(fn) ==
    /\ cont_fn' = IF cont_fn # NULL THEN cont_fn ELSE fn
    /\ disp' = CatchSignal(CatchSignal(disp, "SIGSEGV", sig_fault), "SIGBUS", sig_fault)

fault_setup(fn) ==
    /\ cont_fn' = fn
    /\ disp' = CatchSignal(CatchSignal(disp, "SIGSEGV", sig_fault), "SIGBUS", sig_fault)

\* A specification keeps the arguments of the last `keep` calls.
LastArgs(args, keep) ==
    IF Len(args) <= keep THEN args ELSE SubSeq(args, Len(args) - keep + 1, Len(args))

\* Mutant of FaultSetup: the call also clears the reentrancy counter.
FaultSetup_resets(keep) ==
    /\ Running
    /\ NoHandlerBody
    /\ \E t \in Threads : InApp(t)
    /\ \E fn \in Callbacks \cup {NULL} :
          /\ fault_setup(fn)
          /\ setupArg' = LastArgs(Append(setupArg, fn), keep)
    /\ counter' = 0
    /\ UNCHANGED <<tmask, calls, log, cbCalls, proc, backend, appPanics, pvars>>

FaultSetup(keep) ==
    /\ Running
    /\ NoHandlerBody
    /\ \E t \in Threads : InApp(t)
    /\ \E fn \in Callbacks \cup {NULL} :
          /\ fault_setup(fn)
          /\ setupArg' = LastArgs(Append(setupArg, fn), keep)
    /\ UNCHANGED <<counter, tmask, calls, log, cbCalls, proc, backend, appPanics, pvars>>

\* ------------------------------------------------------ signal delivery -
\* Signal s is raised on thread t, by the code t is running or from outside.
\* With the default disposition, or raised by a fault while t blocks s (the
\* kernel then forces the default action; a blocked signal sent from outside
\* would stay pending and is not modelled): the process ends with a core dump.  A handler that is not sig_fault takes
\* the signal outside this subsystem.  Otherwise sig_fault(s) starts on t
\* with s and the sa_mask added to t's mask; SA_RESETHAND resets the
\* disposition on delivery.  A run has at most `limit` invocations.
Deliver(t, s, limit) ==
    IF s \in tmask[t] \/ disp[s].h = SIG_DFL
    THEN /\ proc' = [how |-> "coredump", by |-> 0]
         /\ UNCHANGED <<calls, tmask, disp>>
    ELSE IF disp[s].h # sig_fault
    THEN /\ proc' = [how |-> "foreign", by |-> 0]
         /\ UNCHANGED <<calls, tmask, disp>>
    ELSE /\ Len(calls) < limit
         /\ calls' = Append(calls, [thread |-> t, sig |-> s, pc |-> "check",
                                    reg |-> 0, saved |-> tmask[t]])
         /\ tmask' = [tmask EXCEPT ![t] =
                         @ \cup disp[s].mask
                           \cup (IF "SA_NODEFER" \in disp[s].flags THEN {} ELSE {s})]
         /\ disp' = IF "SA_RESETHAND" \in disp[s].flags
                    THEN [disp EXCEPT ![s].h = SIG_DFL] ELSE disp
         /\ UNCHANGED proc

\* The threads are interchangeable: the first signal is taken on t1.
FirstOn(t) == calls = <<>> => t = "t1"

Raise(limit) ==
    /\ Running
    /\ \E t \in Threads, s \in FatalSignals : FirstOn(t) /\ Deliver(t, s, limit)
    /\ UNCHANGED <<cont_fn, counter, log, cbCalls, backend, appPanics, setupArg, pvars>>

\* --------------------------------------------------------- fault_report -
\* An invocation runs on from where it is: it is the innermost one of its
\* thread and the process is alive.
Step(i, pc) ==
    /\ Running
    /\ i <= Len(calls)
    /\ Executing(i)
    /\ calls[i].pc = pc

Abort(i) == proc' = [how |-> "abort", by |-> i]

BannerLines(i, sig) ==
    << [who |-> i, kind |-> "separator"],
       [who |-> i, kind |-> "INTERNAL ERROR", sig |-> sig],
       [who |-> i, kind |-> "separator"] >>

\* if (counter) abort();
Check(i) ==
    /\ Step(i, "check")
    /\ IF counter # 0
       THEN Abort(i) /\ UNCHANGED calls
       ELSE SetPc(i, "load") /\ UNCHANGED proc
    /\ UNCHANGED <<cont_fn, counter, disp, tmask, log, cbCalls>>
    /\ UNCHANGED <<backend, appPanics, setupArg, pvars>>

\* counter++ on a plain static int, neither atomic nor volatile: a load ...
IncLoad(i) ==
    /\ Step(i, "load")
    /\ calls' = [calls EXCEPT ![i].pc = "store", ![i].reg = counter]
    /\ UNCHANGED <<cont_fn, counter, disp, tmask, log, cbCalls, proc>>
    /\ UNCHANGED <<backend, appPanics, setupArg, pvars>>

\* Mutant of IncStore: the invocation counts itself twice.
IncStore_twice(i) ==
    /\ Step(i, "store")
    /\ counter' = calls[i].reg + 2
    /\ SetPc(i, "banner")
    /\ UNCHANGED <<cont_fn, disp, tmask, log, cbCalls, proc>>
    /\ UNCHANGED <<backend, appPanics, setupArg, pvars>>

\* ... and a store of the loaded value plus one.
IncStore(i) ==
    /\ Step(i, "store")
    /\ counter' = calls[i].reg + 1
    /\ SetPc(i, "banner")
    /\ UNCHANGED <<cont_fn, disp, tmask, log, cbCalls, proc>>
    /\ UNCHANGED <<backend, appPanics, setupArg, pvars>>

\* Mutant of Banner: goes on to netatalk_panic without writing the banner.
Banner_silent(i) ==
    /\ Step(i, "banner")
    /\ SetPc(i, "panic")
    /\ UNCHANGED <<cont_fn, counter, disp, tmask, log, cbCalls, proc>>
    /\ UNCHANGED <<backend, appPanics, setupArg, pvars>>

\* The three LOG() calls of the banner.
Banner(i) ==
    /\ Step(i, "banner")
    /\ log' = [log EXCEPT ![i] = @ \o BannerLines(i, calls[i].sig)]
    /\ SetPc(i, "panic")
    /\ UNCHANGED <<cont_fn, counter, disp, tmask, cbCalls, proc>>
    /\ UNCHANGED <<backend, appPanics, setupArg, pvars>>

\* netatalk_panic("internal error");
Panic(i) ==
    /\ Step(i, "panic")
    /\ log' = [log EXCEPT ![i] =
                  @ \o netatalk_panic(i, "internal error", backend, AppStack(MaxStack), TRUE)]
    /\ SetPc(i, "test")
    /\ UNCHANGED <<cont_fn, counter, disp, tmask, cbCalls, proc>>
    /\ UNCHANGED <<backend, appPanics, setupArg, pvars>>

\* Mutant of Test: the test is inverted, if (!cont_fn).
Test_inverted(i) ==
    /\ Step(i, "test")
    /\ IF cont_fn = NULL
       THEN /\ cbCalls' = [cbCalls EXCEPT ![i] = Append(@, [fn |-> cont_fn, arg |-> NULL])]
            /\ SetPc(i, "callback")
            /\ UNCHANGED proc
       ELSE /\ Abort(i)
            /\ UNCHANGED <<calls, cbCalls>>
    /\ UNCHANGED <<cont_fn, counter, disp, tmask, log>>
    /\ UNCHANGED <<backend, appPanics, setupArg, pvars>>

\* Mutant of Test: the dispositions are reset before the callback is called.
Test_restoreFirst(i) ==
    /\ Step(i, "test")
    /\ IF cont_fn # NULL
       THEN /\ cbCalls' = [cbCalls EXCEPT ![i] = Append(@, [fn |-> cont_fn, arg |-> NULL])]
            /\ disp' = CatchSignal(CatchSignal(disp, "SIGSEGV", SIG_DFL), "SIGBUS", SIG_DFL)
            /\ SetPc(i, "callback")
            /\ UNCHANGED proc
       ELSE /\ Abort(i)
            /\ UNCHANGED <<calls, cbCalls, disp>>
    /\ UNCHANGED <<cont_fn, counter, tmask, log>>
    /\ UNCHANGED <<backend, appPanics, setupArg, pvars>>

\* if (cont_fn) { cont_fn(NULL); ... } abort();
Test(i) ==
    /\ Step(i, "test")
    /\ IF cont_fn # NULL
       THEN /\ cbCalls' = [cbCalls EXCEPT ![i] = Append(@, [fn |-> cont_fn, arg |-> NULL])]
            /\ SetPc(i, "callback")
            /\ UNCHANGED proc
       ELSE /\ Abort(i)
            /\ UNCHANGED <<calls, cbCalls>>
    /\ UNCHANGED <<cont_fn, counter, disp, tmask, log>>
    /\ UNCHANGED <<backend, appPanics, setupArg, pvars>>

\* The callback returns to fault_report ...
CallbackReturn(i) ==
    /\ Step(i, "callback")
    /\ SetPc(i, "restore_segv")
    /\ UNCHANGED <<cont_fn, counter, disp, tmask, log, cbCalls, proc>>
    /\ UNCHANGED <<backend, appPanics, setupArg, pvars>>

\* ... or ends the process itself (exit, exec).
CallbackExit(i) ==
    /\ Step(i, "callback")
    /\ proc' = [how |-> "exit", by |-> i]
    /\ UNCHANGED <<cont_fn, counter, disp, tmask, calls, log, cbCalls>>
    /\ UNCHANGED <<backend, appPanics, setupArg, pvars>>

\* Mutant of RestoreSegv: SIGSEGV is left as it is.
RestoreSegv_keep(i) ==
    /\ Step(i, "restore_segv")
    /\ SetPc(i, "restore_bus")
    /\ UNCHANGED <<cont_fn, counter, disp, tmask, log, cbCalls, proc>>
    /\ UNCHANGED <<backend, appPanics, setupArg, pvars>>

\* CatchSignal(SIGSEGV, SIG_DFL);
RestoreSegv(i) ==
    /\ Step(i, "restore_segv")
    /\ disp' = CatchSignal(disp, "SIGSEGV", SIG_DFL)
    /\ SetPc(i, "restore_bus")
    /\ UNCHANGED <<cont_fn, counter, tmask, log, cbCalls, proc>>
    /\ UNCHANGED <<backend, appPanics, setupArg, pvars>>

\* Mutant of RestoreBus: the handler that preceded fault_setup is put back.
RestoreBus_previous(i) ==
    /\ Step(i, "restore_bus")
    /\ disp' = CatchSignal(disp, "SIGBUS", prev_handler)
    /\ SetPc(i, "return")
    /\ UNCHANGED <<cont_fn, counter, tmask, log, cbCalls, proc>>
    /\ UNCHANGED <<backend, appPanics, setupArg, pvars>>

\* CatchSignal(SIGBUS, SIG_DFL);
RestoreBus(i) ==
    /\ Step(i, "restore_bus")
    /\ disp' = CatchSignal(disp, "SIGBUS", SIG_DFL)
    /\ SetPc(i, "return")
    /\ UNCHANGED <<cont_fn, counter, tmask, log, cbCalls, proc>>
    /\ UNCHANGED <<backend, appPanics, setupArg, pvars>>

\* return; the kernel puts back the mask the thread had at delivery.
Return(i) ==
    /\ Step(i, "return")
    /\ SetPc(i, "returned")
    /\ tmask' = [tmask EXCEPT ![calls[i].thread] = calls[i].saved]
    /\ UNCHANGED <<cont_fn, counter, disp, log, cbCalls, proc>>
    /\ UNCHANGED <<backend, appPanics, setupArg, pvars>>

fault_report(i) ==
    \/ Check(i)
    \/ IncLoad(i)
    \/ IncStore(i)
    \/ Banner(i)
    \/ Panic(i)
    \/ Test(i)
    \/ CallbackReturn(i)
    \/ CallbackExit(i)
    \/ RestoreSegv(i)
    \/ RestoreBus(i)
    \/ Return(i)

Handler == \E i \in 1..MaxInv + 1 : fault_report(i)

\* Mutant of AppPanic: the call counts as a fault.
AppPanic_counts ==
    /\ Running
    /\ appPanics < MaxAppPanic
    /\ NoHandlerBody
    /\ \E t \in Threads : InApp(t)
    /\ log' = [log EXCEPT ![0] =
                  @ \o netatalk_panic(0, "application", backend, AppStack(MaxStack), TRUE)]
    /\ counter' = counter + 1
    /\ appPanics' = appPanics + 1
    /\ UNCHANGED <<cont_fn, disp, tmask, calls, cbCalls, proc, backend, setupArg, pvars>>

\* ------------------------------------- netatalk_panic, called directly --
AppPanic ==
    /\ Running
    /\ appPanics < MaxAppPanic
    /\ NoHandlerBody
    /\ \E t \in Threads : InApp(t)
    /\ log' = [log EXCEPT ![0] =
                  @ \o netatalk_panic(0, "application", backend, AppStack(MaxStack), TRUE)]
    /\ appPanics' = appPanics + 1
    /\ UNCHANGED <<cont_fn, counter, disp, tmask, calls, cbCalls, proc, backend, setupArg,
                 pvars>>

Next == FaultSetup(1) \/ Raise(MaxInv) \/ Handler \/ AppPanic

Spec == Init /\ [][Next]_vars

\* The same process with one more delivery: the interleavings of the
\* unsynchronised counter that need three invocations in the handler at once.
RaceNext == FaultSetup(1) \/ Raise(MaxInv + 1) \/ Handler \/ AppPanic

RaceSpec == Init /\ [][RaceNext]_vars

\* The process up to its first fault, keeping the arguments of the last two
\* fault_setup calls.
SetupNext == FaultSetup(2) \/ Raise(MaxInv - 1) \/ Handler \/ AppPanic

SetupSpec == Init /\ [][SetupNext]_vars


\* ------------------------------- netatalk_panic, statement by statement --
\* The stacks a call is run on: `depth` frames, the name lookup failing for
\* the frames in `bad`.
StackOf(depth, bad) ==
    [k \in 1..depth |-> [ip |-> k, sym |-> IF k \in bad THEN NoName ELSE Sym(k)]]

PanicInit ==
    /\ HandlerInit
    /\ backend \in Backends
    /\ ppc = "entry"
    /\ \E depth \in 0..MaxDepth, bad \in SUBSET (1..MaxBad) : pstack = StackOf(depth, bad)
    /\ pcyclic \in IF Len(pstack) \in 2..MaxCycle THEN BOOLEAN ELSE {FALSE}
    /\ pstrings \in BOOLEAN
    /\ pcursor = 0
    /\ pcount = 0
    /\ psymbol = Unknown
    /\ psize = 0
    /\ plog = <<>>

\* unw_step(&cursor): positive while there is a frame to step to; on a cyclic
\* chain there always is one.
unw_step(stack, cyclic, cursor) ==
    IF cursor < Len(stack) \/ (cyclic /\ Len(stack) > 0) THEN 1 ELSE 0

\* The frame the unwinder yields after n steps.
FrameAt(stack, n) == stack[((n - 1) % Len(stack)) + 1]

\* LOG("PANIC: %s", why), then the set-up of the backend compiled in, up to
\* its "BACKTRACE:" line.
PanicEntry ==
    /\ ppc = "entry"
    /\ CASE backend = "libunwind" ->
              /\ plog' = <<PanicLine(0, "why"), BacktraceLine(0)>>
              /\ ppc' = "unwind"
              /\ psize' = psize
         [] backend = "backtrace" ->
              /\ plog' = <<PanicLine(0, "why"), BacktraceLine(0)>>
              /\ psize' = IF pcyclic THEN BACKTRACE_STACK_SIZE ELSE backtrace(pstack)
              /\ ppc' = IF pstrings THEN "print" ELSE "done"
         [] OTHER ->
              /\ plog' = <<PanicLine(0, "why")>>
              /\ ppc' = "done"
              /\ psize' = psize
    /\ UNCHANGED <<pstack, pcyclic, pstrings, pcursor, pcount, psymbol, hvars, backend>>

\* Mutant of PanicUnwind: count is advanced by two for each frame.
PanicUnwind_gap ==
    /\ ppc = "unwind"
    /\ IF unw_step(pstack, pcyclic, pcursor) > 0
       THEN LET frame == FrameAt(pstack, pcursor + 1)
                s2 == unw_get_proc_name(frame, psymbol)
                kept == pcount < MaxLines
            IN  /\ pcursor' = IF pcursor < Len(pstack) THEN pcursor + 1 ELSE 1
                /\ psymbol' = s2
                /\ plog' = IF kept THEN Append(plog, FrameLine(0, pcount, frame.ip, s2))
                                   ELSE plog
                /\ pcount' = IF kept THEN pcount + 2 ELSE pcount
                /\ ppc' = ppc
       ELSE /\ ppc' = "done"
            /\ UNCHANGED <<pcursor, psymbol, plog, pcount>>
    /\ UNCHANGED <<pstack, pcyclic, pstrings, psize, hvars, backend>>

\* One test of while (unw_step(&cursor) > 0) and, when it holds, the body.
\* The loop has no bound of its own; of a walk longer than MaxLines frames
\* the model keeps the first MaxLines lines and stops counting, while the
\* loop goes on.
PanicUnwind ==
    /\ ppc = "unwind"
    /\ IF unw_step(pstack, pcyclic, pcursor) > 0
       THEN LET frame == FrameAt(pstack, pcursor + 1)
                s2 == unw_get_proc_name(frame, psymbol)
                kept == pcount < MaxLines
            IN  /\ pcursor' = IF pcursor < Len(pstack) THEN pcursor + 1 ELSE 1
                /\ psymbol' = s2
                /\ plog' = IF kept THEN Append(plog, FrameLine(0, pcount, frame.ip, s2))
                                   ELSE plog
                /\ pcount' = IF kept THEN pcount + 1 ELSE pcount
                /\ ppc' = ppc
       ELSE /\ ppc' = "done"
            /\ UNCHANGED <<pcursor, psymbol, plog, pcount>>
    /\ UNCHANGED <<pstack, pcyclic, pstrings, psize, hvars, backend>>

\* One test of i < backtrace_size and, when it holds, the LOG and i++.
PanicPrint ==
    /\ ppc = "print"
    /\ IF pcursor < psize
       THEN /\ plog' = Append(plog, FrameLine(0, pcursor, FrameAt(pstack, pcursor + 1).ip,
                                              FrameAt(pstack, pcursor + 1).sym))
            /\ pcursor' = pcursor + 1
            /\ ppc' = ppc
       ELSE /\ ppc' = "done"
            /\ UNCHANGED <<pcursor, plog>>
    /\ UNCHANGED <<pstack, pcyclic, pstrings, pcount, psymbol, psize, hvars, backend>>

PanicNext == PanicEntry \/ PanicUnwind \/ PanicPrint

PanicSpec == PanicInit /\ [][PanicNext]_vars

\* The call runs on: the thread in netatalk_panic is not suspended for ever.
PanicFairSpec == PanicSpec /\ WF_vars(PanicNext)


\* ============================== properties of the process (Spec) ========
Count(seq, kind) == Cardinality({k \in DOMAIN seq : seq[k].kind = kind})

Invocations == 1..Len(calls)

\* Invocation i found the counter 0 at the reentrancy check.
Passed(i) == calls[i].pc # "check"

\* Invocation i has taken a continuation or termination action: it invoked
\* the callback, went on to restore dispositions, or called abort().
Acted(i) ==
    \/ cbCalls[i] # <<>>
    \/ calls[i].pc \in {"callback", "restore_segv", "restore_bus", "return", "returned"}
    \/ proc.how = "abort" /\ proc.by = i

\* Invocation i has written exactly one banner, for its own signal, and
\* exactly one backtrace report.
Reported(i) ==
    /\ Count(log[i], "INTERNAL ERROR") = 1
    /\ \A k \in DOMAIN log[i] :
          log[i][k].kind = "INTERNAL ERROR" => log[i][k].sig = calls[i].sig
    /\ Count(log[i], "PANIC") = 1
    /\ \A k \in DOMAIN log[i] :
          log[i][k].kind = "PANIC" => log[i][k].why = "internal error"

\* C1: an invocation that found the counter 0 writes at most one banner and
\* one backtrace report, and has written exactly one of each by the time it
\* invokes the callback, restores a disposition or calls abort().
C1_ReportBeforeAction ==
    \A i \in Invocations :
        Passed(i) =>
            /\ Count(log[i], "INTERNAL ERROR") <= 1
            /\ Count(log[i], "PANIC") <= 1
            /\ Acted(i) => Reported(i)

\* C1 witness: an invocation found the counter 0, reported, invoked the
\* callback, restored the dispositions and returned.
C1_Witness ==
    \E i \in Invocations :
        calls[i].pc = "returned" /\ cbCalls[i] # <<>> /\ Reported(i)

\* C2 (as claimed): the counter never decreases, and an invocation that finds
\* it greater than 0 calls abort() at once: its step changes nothing but the
\* process's end.
C2_MonotoneAndSilent ==
    [][ /\ counter' >= counter
        /\ \A i \in Invocations :
              (calls[i].pc = "check" /\ counter > 0 /\ proc'.how = "abort" /\ proc'.by = i)
                  => UNCHANGED <<log, cbCalls, disp, calls, counter>> ]_vars

\* C3 (as claimed): at most one invocation ever finds the counter 0, so at
\* most one banner is written and the callback is invoked at most once.
C3_AtMostOnePasses ==
    /\ Cardinality({i \in Invocations : Passed(i)}) <= 1
    /\ Cardinality({i \in Invocations : Count(log[i], "INTERNAL ERROR") > 0}) <= 1
    /\ Cardinality({i \in Invocations : cbCalls[i] # <<>>}) <= 1

\* C4: when the only invocation of the run returns, it has invoked the
\* callback exactly once, with a null argument, and the disposition of its
\* signal is SIG_DFL; a signal whose disposition is SIG_DFL never starts the
\* handler.
C4_CallbackOnceThenDefault ==
    [][ /\ \A i \in Invocations :
              (Len(calls') = 1 /\ calls[i].pc = "return" /\ calls'[i].pc = "returned")
                  => /\ Len(cbCalls'[i]) = 1
                     /\ cbCalls'[i][1].fn \in Callbacks
                     /\ cbCalls'[i][1].arg = NULL
                     /\ disp'[calls[i].sig].h = SIG_DFL
        /\ Len(calls') > Len(calls)
              => disp[calls'[Len(calls')].sig].h = sig_fault ]_vars

\* C4 witness: the single invocation has returned from the callback path and
\* its signal has the default disposition.
C4_Witness ==
    /\ Len(calls) = 1
    /\ calls[1].pc = "returned"
    /\ Len(cbCalls[1]) = 1
    /\ disp[calls[1].sig].h = SIG_DFL

Body == {"check", "load", "store", "banner", "panic", "test"}

\* C5 (as claimed): with a null callback, every abort() of the handler comes
\* after a banner and a backtrace report.
C5_AbortAfterReport ==
    (cont_fn = NULL /\ proc.how = "abort")
        => \E i \in Invocations :
              Count(log[i], "INTERNAL ERROR") > 0 /\ Count(log[i], "PANIC") > 0

\* C5 (amended): with a null callback an invocation never invokes the
\* callback and never leaves the handler body: its only way out is abort(),
\* which an invocation that found the counter 0 calls only after its banner
\* and backtrace report.
C5_NullNeverReturns ==
    [][ \A i \in Invocations :
          (cont_fn = NULL /\ calls[i].pc \in Body)
              => /\ calls'[i].pc \in Body
                 /\ cbCalls'[i] = <<>>
                 /\ (proc'.how = "abort" /\ proc'.by = i /\ Passed(i))
                       => /\ calls[i].pc = "test"
                          /\ Count(log'[i], "INTERNAL ERROR") = 1
                          /\ Count(log'[i], "PANIC") = 1 ]_vars

\* C5 witness: fault_setup(NULL), one fault, reported and ended by abort().
C5_Witness ==
    /\ cont_fn = NULL
    /\ proc.how = "abort"
    /\ \E i \in Invocations : proc.by = i /\ calls[i].pc = "test" /\ Reported(i)

\* C6 (as claimed): whenever the callback is running, SIGSEGV and SIGBUS
\* already have the default disposition.
C6_DefaultDuringCallback ==
    \A i \in Invocations :
        calls[i].pc = "callback" => \A s \in FatalSignals : disp[s].h = SIG_DFL

\* C6 (amended): the handler changes no disposition before its callback has
\* returned; while the callback runs the counter is greater than 0, so a
\* fault that reaches the handler then aborts at the reentrancy check; and
\* once the handler has restored both dispositions (it is about to return)
\* every fatal signal has the default disposition, so a later fault is not
\* intercepted.
C6_DefaultAfterCallback ==
    /\ [][ \A i \in Invocations :
              /\ (calls[i].pc \in Body \cup {"callback"} /\ calls'[i] # calls[i])
                    => disp' = disp
              /\ calls'[i].pc = "return"
                    => \A s \in FatalSignals : disp'[s].h = SIG_DFL ]_vars
    /\ [](\A i \in Invocations : calls[i].pc = "callback" => counter > 0)

\* C6 witness: the callback is running and both fatal signals still have
\* sig_fault as their handler.
C6_Witness ==
    \E i \in Invocations :
        calls[i].pc = "callback" /\ \A s \in FatalSignals : disp[s].h = sig_fault

\* C7: no step ever installs the handler that preceded fault_setup, and when
\* the handler returns every fatal signal, whichever fired, has SIG_DFL as
\* its disposition.
C7_RestoresDefaultForAll ==
    [][ /\ \A s \in FatalSignals :
              disp'[s].h = prev_handler => disp[s].h = prev_handler
        /\ \A i \in Invocations :
              (calls[i].pc = "return" /\ calls'[i].pc = "returned")
                  => \A s \in FatalSignals : disp'[s].h = SIG_DFL ]_vars

\* C7 witness: SIGBUS fired, the handler returned, and SIGSEGV too is back
\* to the default.
C7_Witness ==
    \E i \in Invocations :
        /\ calls[i].sig = "SIGBUS"
        /\ calls[i].pc = "returned"
        /\ disp["SIGSEGV"].h = SIG_DFL
        /\ disp["SIGBUS"].h = SIG_DFL

\* C10: a call of netatalk_panic by the application changes only the log:
\* not the counter, the callback, the dispositions, the invocations, the
\* callback's calls or the life of the process; and the records a handler
\* invocation writes are those it writes without such a call.
C10_PanicFrame ==
    /\ [][ appPanics' # appPanics
              => UNCHANGED <<counter, cont_fn, disp, tmask, calls, cbCalls, proc>> ]_vars
    /\ [](\A i \in Invocations :
            calls[i].pc \in {"test", "callback", "restore_segv", "restore_bus",
                             "return", "returned"}
               => log[i] = BannerLines(i, calls[i].sig)
                             \o netatalk_panic(i, "internal error", backend,
                                               AppStack(MaxStack), TRUE))

\* C10 witness: the application called netatalk_panic, then the first fault
\* came and was reported in full.
C10_Witness ==
    /\ appPanics > 0
    /\ log[0] # <<>>
    /\ Len(calls) = 1
    /\ calls[1].pc = "test"
    /\ Reported(1)

\* ============================ properties of netatalk_panic (PanicSpec) ==
\* C8 (as claimed): one call writes at most 64 frame lines.
C8_AtMost64Frames == Count(plog, "frame") <= BACKTRACE_STACK_SIZE

\* C9 (as claimed): with no unwinding facility the call ends having written
\* the PANIC line and one line saying that no backtrace is available.
C9_NoBacktraceNotice ==
    (backend = "none" /\ ppc = "done")
        => /\ Len(plog) = 2
           /\ plog[1].kind = "PANIC"
           /\ plog[2].kind = "no backtrace"


\* ------------------------------------------------------------------ C11 -
LastArg == setupArg[Len(setupArg)]

\* C11: once fault_setup has been called, the callback slot holds the argument
\* of the most recent call and, until a fault is delivered, both fatal signals
\* have sig_fault as disposition; the first fault, at its test of the slot,
\* calls that argument when it is not NULL and aborts when it is NULL.
C11_LatestSetupWins ==
    /\ [](setupArg # <<>> => cont_fn = LastArg)
    /\ []((setupArg # <<>> /\ calls = <<>>)
             => \A s \in FatalSignals : disp[s].h = sig_fault)
    /\ [][ \A i \in Invocations :
             (/\ calls[i].pc = "test"
              /\ \/ calls'[i].pc = "callback"
                 \/ (proc.how = "running" /\ proc' = [how |-> "abort", by |-> i]))
             => IF LastArg = NULL
                THEN /\ proc' = [how |-> "abort", by |-> i]
                     /\ cbCalls' = cbCalls
                ELSE /\ calls'[i].pc = "callback"
                     /\ cbCalls'[i] = Append(cbCalls[i], [fn |-> LastArg, arg |-> NULL])
                     /\ proc' = proc ]_vars

\* fault_setup(fn1) and then fault_setup(NULL): the first fault aborts at its
\* test of the slot and fn1 is never called.
C11_Witness ==
    /\ setupArg = <<"fn1", NULL>>
    /\ Len(calls) = 1
    /\ calls[1].pc = "test"
    /\ proc = [how |-> "abort", by |-> 1]
    /\ cbCalls[1] = <<>>


\* ------------------------------------------------------------------ C12 -
\* Invocation i has executed counter++.
Incremented(i) == calls[i].pc \notin {"check", "load", "store"}

\* Invocation i is over or past its counter++: it executed the increment or
\* called abort().
Counted(i) == Incremented(i) \/ (proc.how = "abort" /\ proc.by = i)

C15_UnknownOnFailure ==
    backend = "libunwind"
    => \A k \in DOMAIN plog :
          (plog[k].kind = "frame" /\ FrameAt(pstack, plog[k].idx + 1).sym = NoName)
          => plog[k].name = Unknown


\* C16: every call of netatalk_panic comes to its end, whatever the stack.
C16_BacktraceFinishes == <>(ppc = "done")


\* ------------------------------------------------------------------ C17 -
IsFrameLine(r) == r.kind = "frame"
FrameLines == SelectSeq(plog, IsFrameLine)

\* C17: the first record of a call is its PANIC line, the only one; every
\* frame line comes after it, and the n-th frame line carries index n - 1
\* and the n-th frame the unwinder yields.
C17_PanicThenFramesInOrder ==
    /\ plog # <<>> => (plog[1] = PanicLine(0, "why") /\ Count(plog, "PANIC") = 1)
    /\ ppc \in {"unwind", "print", "done"} => plog # <<>>
    /\ \A n \in DOMAIN FrameLines :
          /\ FrameLines[n].idx = n - 1
          /\ FrameLines[n].ip = FrameAt(pstack, n).ip

\* A finished walk of a stack of three frames, for either unwinder.
C17_Witness ==
    /\ ppc = "done"
    /\ backend \in {"libunwind", "backtrace"}
    /\ Len(pstack) = 3
    /\ ~pcyclic
    /\ Len(FrameLines) = 3
    /\ Len(plog) = 5


\* ------------------------------------------------------------------ C18 -
\* Invocation i has handled its fault: it called the callback.
Handled(i) == calls[i].pc \in {"callback", "restore_segv", "restore_bus", "return", "returned"}

\* C18: a call of fault_setup installs sig_fault for both signals and leaves
\* the counter alone; once a fault has been handled the counter is not 0, and
\* an invocation that is at the reentrancy check then has no record and no
\* callback call, and does nothing but abort.
C18_SetupKeepsCounter ==
    /\ [][ (cont_fn' # cont_fn \/ setupArg' # setupArg \/ (disp' # disp /\ calls' = calls))
             => /\ counter' = counter
                /\ \A s \in FatalSignals : disp'[s].h = sig_fault ]_vars
    /\ []((\E i \in Invocations : Handled(i)) => counter > 0)
    /\ [](\A j \in Invocations : calls[j].pc = "check" => (log[j] = <<>> /\ cbCalls[j] = <<>>))
    /\ [][ \A j \in Invocations :
             (calls[j].pc = "check" /\ \E i \in Invocations : Handled(i))
             => /\ calls'[j] = calls[j]
                /\ log'[j] = log[j]
                /\ cbCalls'[j] = cbCalls[j] ]_vars

\* The first fault was handled and its handler returned, which left SIG_DFL
\* installed; fault_setup(fn1) was called again and the next fault entered
\* sig_fault and aborted at the reentrancy check.
C18_Witness ==
    /\ Len(calls) = 2
    /\ calls[1].pc = "returned"
    /\ cbCalls[1] # <<>>
    /\ cont_fn = "fn1"
    /\ \A s \in FatalSignals : disp[s].h = sig_fault
    /\ calls[2].pc = "check"
    /\ proc = [how |-> "abort", by |-> 2]
    /\ log[2] = <<>>
    /\ cbCalls[2] = <<>>

=============================================================================
